---- MODULE Spec2Model ----
(***************************************************************************)
(* A model of eco_meteor_bot.py: the module-level event state, the         *)
(* periodic update_loop and the createmeteor / deletemeteor commands, as   *)
(* coroutines on one asyncio event loop.  Control changes hands only at an *)
(* await, so every action below runs one coroutine from one await (or its  *)
(* start) to its next await (or its end).                                  *)
(*                                                                         *)
(* Time is in whole seconds from 00:00 UTC on 1 January of EpochYear.      *)
(***************************************************************************)
EXTENDS Integers, Sequences, FiniteSets, TLC

VARIABLES
    TARGET_TIME,            \* None or the impact time
    COUNTDOWN_CHANNEL_ID,   \* None or a channel id
    sent_day_reminders,     \* set of day thresholds already fired
    sent_hour_reminders,    \* set of hour thresholds already fired
    now,                    \* the wall clock, datetime.now(timezone.utc)
    channels,               \* the guild: existing channel id -> name
    next_id,                \* the id the next created channel gets
    tick,                   \* the update_loop coroutine: where it is suspended and its locals
    sched,                  \* the tasks.loop scheduler: "free", "due" or "wait"
    cmd,                    \* the command coroutines, one per handler slot
    day_sends,              \* history: day threshold -> send attempts since the last reset
    hour_sends,             \* history: hour threshold -> send attempts since the last reset
    carried_day,            \* history: day markers added by a tick that began before the last reset
    carried_hour,           \* history: hour markers added by a tick that began before the last reset
    expired_seen,           \* history: a tick has observed remaining <= 0 since the last reset
    refire_blocked,         \* history: a tick of this event found its threshold marked by a carried marker
    day_reached,            \* history: day thresholds a tick of this event has evaluated
    hour_reached,           \* history: hour thresholds a tick of this event has evaluated
    ticks_run,              \* history: ticks begun (counted under a scheduler only)
    renames,                \* history: how the rename calls of those ticks ended, in order
    given_delta,            \* the argument format_time is called with
    time_str                \* None or what format_time returned

vars == <<TARGET_TIME, COUNTDOWN_CHANNEL_ID, sent_day_reminders, sent_hour_reminders,
          now, channels, next_id, tick, sched, cmd,
          day_sends, hour_sends, carried_day, carried_hour, expired_seen,
          refire_blocked, day_reached, hour_reached, ticks_run, renames,
          given_delta, time_str>>

\* Python's None, and a value that is present.
None == <<>>
Some(x) == <<x>>
Val(o) == o[1]

\* ------------------------------------------------------------ configuration

EVENT_NAME == "meteor impact"
REMINDER_DAYS == {28, 21, 14, 7, 2, 1}
REMINDER_HOURS == {24, 12, 6, 3, 1}
SecondsPerDay == 86400
SecondsPerHour == 3600
SecondsPerMinute == 60
TickPeriod == 60

\* A channel name: the fixed label, a countdown, or the name given at creation.
FINISHED_NAME == [label |-> "Impact imminent!", parts |-> <<>>]
DefaultName == [label |-> "meteor-impact", parts |-> <<>>]

\* ------------------------------------------------------------------ bounds

MaxChannels == 2      \* channels the guild lets the commands create
NumHandlers == 1      \* command invocations that can be in flight together
MaxSends == 2         \* the send counters saturate here
MaxTicks == 4         \* ticks of a run under the one-minute scheduler
MaxOffset == 125      \* such a run starts at most this many seconds off a day boundary
EpochYear == 2026     \* the year whose 1 January is second 0
MaxRepeats == 2       \* ticks that read the same remaining time one after the other
FormatSlack == 61     \* format_time is given deltas this many seconds around each sample
NumRacing == 2        \* command invocations in flight together when commands race

\* ----------------------------------------------------------------- helpers

\* divmod(total, n)[0] and [1] for total >= 0, n > 0
FloorDiv(a, b) == a \div b
Mod(a, b) == a % b

\* As format_time, with the hours left out whenever they are zero.
format_time_NoZeroHours(delta) ==
    LET total == IF delta < 0 THEN 0 ELSE delta
        days == FloorDiv(total, SecondsPerDay)
        rem1 == Mod(total, SecondsPerDay)
        hours == FloorDiv(rem1, SecondsPerHour)
        rem2 == Mod(rem1, SecondsPerHour)
        minutes == FloorDiv(rem2, SecondsPerMinute)
    IN  (IF days > 0 THEN << <<days, "d">> >> ELSE <<>>)
        \o (IF hours > 0 THEN << <<hours, "h">> >> ELSE <<>>)
        \o << <<minutes, "m">> >>

\* format_time: the components " ".join puts together, each <<value, unit>>.
format_time(delta) ==
    LET total == IF delta < 0 THEN 0 ELSE delta
        days == FloorDiv(total, SecondsPerDay)
        rem1 == Mod(total, SecondsPerDay)
        hours == FloorDiv(rem1, SecondsPerHour)
        rem2 == Mod(rem1, SecondsPerHour)
        minutes == FloorDiv(rem2, SecondsPerMinute)
    IN  (IF days > 0 THEN << <<days, "d">> >> ELSE <<>>)
        \o (IF hours > 0 \/ days > 0 THEN << <<hours, "h">> >> ELSE <<>>)
        \o << <<minutes, "m">> >>

\* f"{METEOR_ICON} · {time_str} till impact"
CountdownName(delta) == [label |-> "till impact", parts |-> format_time(delta)]

\* The day count rounded to the nearest day, as the hour count is.
DaysRemaining_Rounded(ts) == FloorDiv(2 * ts + SecondsPerDay, 2 * SecondsPerDay)

\* The day count with a day that has begun counted in full.
DaysRemaining_Ceil(ts) == FloorDiv(ts + SecondsPerDay - 1, SecondsPerDay)

\* int(total_seconds // 86400)
DaysRemaining(ts) == FloorDiv(ts, SecondsPerDay)

\* The hour count taken as the day count is, by floor division.
HoursRemaining_Floor(ts) == FloorDiv(ts, SecondsPerHour)

\* int(round(total_seconds / 3600)): Python 3 rounds a half to the even integer.
HoursRemaining(ts) ==
    LET q == FloorDiv(ts, SecondsPerHour)
        r2 == 2 * Mod(ts, SecondsPerHour)
    IN  IF r2 < SecondsPerHour THEN q
        ELSE IF r2 > SecondsPerHour THEN q + 1
        ELSE IF q % 2 = 0 THEN q ELSE q + 1

\* ------------------------------------------------------- parse_datetime_utc

\* A field of a split string: an integer literal, or text int() rejects.
Num(n) == [isnum |-> TRUE, v |-> n]
Txt == [isnum |-> FALSE, v |-> 0]

IsLeap(y) == (y % 4 = 0 /\ y % 100 # 0) \/ y % 400 = 0

DaysInMonth(y, m) ==
    IF m = 2 THEN (IF IsLeap(y) THEN 29 ELSE 28)
    ELSE IF m \in {4, 6, 9, 11} THEN 30 ELSE 31

RECURSIVE DaysBeforeMonth(_, _)
DaysBeforeMonth(y, m) == IF m <= 1 THEN 0 ELSE DaysBeforeMonth(y, m - 1) + DaysInMonth(y, m - 1)

RECURSIVE DaysBeforeYear(_)
DaysBeforeYear(y) ==
    IF y = EpochYear THEN 0
    ELSE IF y > EpochYear THEN DaysBeforeYear(y - 1) + (IF IsLeap(y - 1) THEN 366 ELSE 365)
    ELSE DaysBeforeYear(y + 1) - (IF IsLeap(y) THEN 366 ELSE 365)

\* "year, month, day = map(int, ...)" raises unless there are exactly three
\* integer fields; "hour, minute = ..." unless exactly two.
FieldsOk(fields, n) == Len(fields) = n /\ \A i \in 1..Len(fields) : fields[i].isnum

\* As DatetimeOk, with no check of the month, the day, the hour or the minute.
DatetimeOk_YearOnly(y, m, d, h, mi) == y >= 1 /\ y <= 9999

\* datetime(year, month, day, hour, minute) raises on a value out of range.
DatetimeOk(y, m, d, h, mi) ==
    /\ y >= 1 /\ y <= 9999
    /\ m >= 1 /\ m <= 12
    /\ d >= 1 /\ d <= DaysInMonth(y, m)
    /\ h >= 0 /\ h <= 23
    /\ mi >= 0 /\ mi <= 59

ParseOk(date, time) ==
    /\ FieldsOk(date, 3)
    /\ FieldsOk(time, 2)
    /\ DatetimeOk(date[1].v, date[2].v, date[3].v, time[1].v, time[2].v)

\* The timestamp of a string pair that parses.
parse_datetime_utc(date, time) ==
    (DaysBeforeYear(date[1].v) + DaysBeforeMonth(date[1].v, date[2].v) + (date[3].v - 1))
        * SecondsPerDay
    + time[1].v * SecondsPerHour + time[2].v * SecondsPerMinute

\* ------------------------------------------------------------------ inputs

\* The strings the createmeteor command is given, already split on "-" and ":".
Date1 == <<Num(2026), Num(1), Num(20)>>      \* "2026-01-20"
Date2 == <<Num(2026), Num(1), Num(26)>>      \* "2026-01-26"
Time1 == <<Num(16), Num(47)>>                \* "16:47"
Time2 == <<Num(16), Num(57)>>                \* "16:57"
DateInputs ==
    { Date1, Date2,
      <<Num(2025), Num(13), Num(40)>>,       \* "2025-13-40"
      <<Num(2026), Num(2), Num(29)>>,        \* "2026-02-29"
      <<Num(2026), Txt, Num(20)>>,           \* "2026-jan-20"
      <<Num(2026), Num(1)>> }                \* "2026-01"
TimeInputs ==
    { Time1,
      <<Num(24), Num(0)>>,                   \* "24:00"
      <<Num(16)>> }                          \* "16"
Requests ==
    { [date |-> d, time |-> Time1] : d \in DateInputs \ {Date2} }
        \cup { [date |-> Date1, time |-> t] : t \in TimeInputs }
        \cup { [date |-> Date2, time |-> Time2] }

\* The impact times of "2026-01-20 16:47" and of "2026-01-26 16:57", 6 days
\* and 10 minutes later, and what can remain until the first when the clock
\* is read.
T1 == parse_datetime_utc(Date1, Time1)
T2 == parse_datetime_utc(Date2, Time2)
Remainings ==
    { 7 * SecondsPerDay + 600,     \* 7 days 10 minutes
      SecondsPerDay,               \* 1 day = 24 hours; 7 days 10 minutes to T2
      0 }                          \* the impact time; 6 days 10 minutes to T2
ClockPoints == { T1 - r : r \in Remainings }

Handlers == DOMAIN cmd

\* ------------------------------------------------------------------- state

IdleTick == [pc |-> "idle", ts |-> 0, ch |-> None, msg |-> None, stale |-> FALSE, failed |-> {}]
IdleCmd == [pc |-> "idle", args |-> None, dt |-> None, ch |-> None, out |-> "None"]

NoSends(S) == [n \in S |-> 0]

NoHistory ==
    /\ day_sends = NoSends(REMINDER_DAYS)
    /\ hour_sends = NoSends(REMINDER_HOURS)
    /\ carried_day = {}
    /\ carried_hour = {}
    /\ expired_seen = FALSE
    /\ refire_blocked = FALSE
    /\ day_reached = {}
    /\ hour_reached = {}
    /\ renames = <<>>

\* format_time is not being called.
NoCall ==
    /\ given_delta = 0
    /\ time_str = None

Init ==
    /\ TARGET_TIME = None
    /\ COUNTDOWN_CHANNEL_ID = None
    /\ sent_day_reminders = {}
    /\ sent_hour_reminders = {}
    /\ now \in ClockPoints
    /\ channels = [c \in {} |-> DefaultName]
    /\ next_id = 1
    /\ tick = IdleTick
    /\ sched = "free"
    /\ cmd = [h \in 1..NumHandlers |-> IdleCmd]
    /\ NoHistory
    /\ ticks_run = 0
    /\ NoCall

\* ------------------------------------------------------ the collaborator

\* c is None or Some(id)
Exists(c) == c # None /\ Val(c) \in DOMAIN channels

\* get_channel reads the client's cache: it finds only a channel that exists,
\* and may miss one the cache has not caught up with.
GetChannel(c) == IF Exists(c) THEN {TRUE, FALSE} ELSE {FALSE}

\* What an awaited call on channel c can end with: it succeeds only on a
\* channel that exists, and can fail in any case.
Outcomes(c) == IF Exists(c) THEN {TRUE, FALSE} ELSE {FALSE}

Without(chs, c) == [x \in DOMAIN chs \ {Val(c)} |-> chs[x]]
Renamed(chs, c, name) == [chs EXCEPT ![Val(c)] = name]
NameOf(chs, c) == chs[Val(c)]

Bump(n) == IF n < MaxSends THEN n + 1 ELSE MaxSends

\* ------------------------------------------------------------- update_loop

\* What one run of update_loop reads and writes.
TickView ==
    [tick |-> tick, sd |-> sent_day_reminders, sh |-> sent_hour_reminders,
     chs |-> channels, ds |-> day_sends, hs |-> hour_sends,
     cd |-> carried_day, chr |-> carried_hour, ex |-> expired_seen,
     rb |-> refire_blocked, dr |-> day_reached, hr |-> hour_reached,
     rn |-> renames, run |-> sched # "free"]

SetTick(s) ==
    /\ tick' = s.tick
    /\ sent_day_reminders' = s.sd
    /\ sent_hour_reminders' = s.sh
    /\ channels' = s.chs
    /\ day_sends' = s.ds
    /\ hour_sends' = s.hs
    /\ carried_day' = s.cd
    /\ carried_hour' = s.chr
    /\ expired_seen' = s.ex
    /\ refire_blocked' = s.rb
    /\ day_reached' = s.dr
    /\ hour_reached' = s.hr
    /\ renames' = s.rn

\* update_loop returns.
Finish(s) == [s EXCEPT !.tick = IdleTick]

Plural(n) == IF n = 1 THEN "" ELSE "s"

HourWindow == 2 * SecondsPerDay

\* What a tick that evaluates threshold n leaves in the history: a tick of
\* this event has reached n, and was blocked if n is marked only because a
\* tick of an earlier event carried it over.
Reached(reached, s, n) == IF s.tick.stale THEN reached ELSE reached \cup {n}
Blocked(s, n, carried) == s.rb \/ (~s.tick.stale /\ n \in carried)

\* As HourStage, written as a copy of the day stage: the count is in days
\* and nothing asks how much time is left.
HourStage_AsDayStage(s) ==
    LET ts == s.tick.ts
        hours_remaining == FloorDiv(ts, SecondsPerDay)
    IN  IF hours_remaining \in REMINDER_HOURS /\ hours_remaining \notin s.sh
        THEN [s EXCEPT !.sh = @ \cup {hours_remaining},
                       !.hs[hours_remaining] = Bump(@),
                       !.hr = Reached(@, s, hours_remaining),
                       !.tick.pc = "send_hour",
                       !.tick.msg = <<hours_remaining, "hour", Plural(hours_remaining), EVENT_NAME>>]
        ELSE Finish(s)

\* Lines 153-169 up to the await of the hour send.
HourStage(s) ==
    LET ts == s.tick.ts
        hours_remaining == HoursRemaining(ts)
    IN  IF ts < HourWindow /\ hours_remaining \in REMINDER_HOURS
        THEN IF hours_remaining \notin s.sh
             THEN [s EXCEPT !.sh = @ \cup {hours_remaining},
                            !.hs[hours_remaining] = Bump(@),
                            !.chr = IF s.tick.stale THEN @ \cup {hours_remaining} ELSE @,
                            !.hr = Reached(@, s, hours_remaining),
                            !.tick.pc = "send_hour",
                            !.tick.msg = <<hours_remaining, "hour", Plural(hours_remaining), EVENT_NAME>>]
             ELSE Finish([s EXCEPT !.hr = Reached(@, s, hours_remaining),
                                   !.rb = Blocked(s, hours_remaining, s.chr)])
        ELSE Finish(s)

\* As DayStage, with the threshold not recorded before the send.
DayStage_NoMark(s) ==
    LET ts == s.tick.ts
        days_remaining == DaysRemaining(ts)
    IN  IF days_remaining \in REMINDER_DAYS /\ days_remaining \notin s.sd
        THEN [s EXCEPT !.ds[days_remaining] = Bump(@),
                       !.dr = Reached(@, s, days_remaining),
                       !.tick.pc = "send_day",
                       !.tick.msg = <<days_remaining, "day", Plural(days_remaining), EVENT_NAME>>]
        ELSE HourStage(s)

\* Lines 136-151 up to the await of the day send, or on to the hour stage.
DayStage(s) ==
    LET ts == s.tick.ts
        days_remaining == DaysRemaining(ts)
    IN  IF days_remaining \in REMINDER_DAYS
        THEN IF days_remaining \notin s.sd
             THEN [s EXCEPT !.sd = @ \cup {days_remaining},
                            !.ds[days_remaining] = Bump(@),
                            !.cd = IF s.tick.stale THEN @ \cup {days_remaining} ELSE @,
                            !.dr = Reached(@, s, days_remaining),
                            !.tick.pc = "send_day",
                            !.tick.msg = <<days_remaining, "day", Plural(days_remaining), EVENT_NAME>>]
             ELSE HourStage([s EXCEPT !.dr = Reached(@, s, days_remaining),
                                      !.rb = Blocked(s, days_remaining, s.cd)])
        ELSE HourStage(s)

\* A rename call is made, and it returns or raises: what the history of a
\* scheduled run keeps of it.
Issued(s) ==
    IF s.run /\ Len(s.rn) < MaxSends THEN [s EXCEPT !.rn = Append(@, "pending")] ELSE s
Settled(s, ok) ==
    IF s.rn # <<>> /\ s.rn[Len(s.rn)] = "pending"
    THEN [s EXCEPT !.rn[Len(s.rn)] = IF ok THEN "ok" ELSE "failed"]
    ELSE s

\* Lines 125-134 up to the await of the rename, or on to the day stage.
RenameStage(s) ==
    IF NameOf(s.chs, s.tick.ch) # CountdownName(s.tick.ts)
    THEN Issued([s EXCEPT !.tick.pc = "edit"])
    ELSE DayStage(s)

\* As ExpiredStage, with the rename issued whatever the channel is called.
ExpiredStage_AlwaysRenames(s) ==
    Issued([s EXCEPT !.ex = IF s.tick.stale THEN @ ELSE TRUE, !.tick.pc = "edit_finished"])

\* Lines 109-123 up to the await of the rename, or the return.
ExpiredStage(s) ==
    LET s1 == [s EXCEPT !.ex = IF s.tick.stale THEN @ ELSE TRUE]
    IN  IF NameOf(s.chs, s.tick.ch) # FINISHED_NAME
        THEN Issued([s1 EXCEPT !.tick.pc = "edit_finished"])
        ELSE Finish(s1)

\* Lines 107-110: the channel object is in hand.
AfterLookup(s) == IF s.tick.ts <= 0 THEN ExpiredStage(s) ELSE RenameStage(s)

\* Lines 94-105 up to the await of fetch_channel, or on with the cached channel.
LookupStage(s, hit) ==
    IF hit THEN AfterLookup(s) ELSE [s EXCEPT !.tick.pc = "fetch"]

\* The scheduler after it has started a tick.
Scheduled == IF sched = "free" THEN "free" ELSE "wait"

\* update_loop is called: lines 88-105.
TickStart ==
    /\ tick.pc = "idle"
    /\ sched # "wait"
    /\ sched' = Scheduled
    /\ ticks_run' = IF sched = "free" THEN ticks_run ELSE ticks_run + 1
    /\ IF TARGET_TIME = None \/ COUNTDOWN_CHANNEL_ID = None
       THEN SetTick(TickView)
       ELSE \E hit \in GetChannel(COUNTDOWN_CHANNEL_ID) :
                SetTick(LookupStage(
                    [TickView EXCEPT !.tick.ts = Val(TARGET_TIME) - now,
                                     !.tick.ch = COUNTDOWN_CHANNEL_ID], hit))
    /\ UNCHANGED <<TARGET_TIME, COUNTDOWN_CHANNEL_ID, now, next_id, cmd,
                   given_delta, time_str>>

TickRest ==
    UNCHANGED <<TARGET_TIME, COUNTDOWN_CHANNEL_ID, now, next_id, cmd, sched, ticks_run,
                given_delta, time_str>>

\* As FetchResult, with the day threshold of a failed lookup's tick recorded.
FetchResult_MarksDue(s, ok) ==
    IF ok THEN AfterLookup(s)
    ELSE Finish([s EXCEPT !.sd = @ \cup ({DaysRemaining(s.tick.ts)} \cap REMINDER_DAYS)])

\* fetch_channel returns the channel or raises (lines 101-105).
FetchResult(s, ok) == IF ok THEN AfterLookup(s) ELSE Finish(s)

FetchDone ==
    /\ tick.pc = "fetch"
    /\ \E ok \in Outcomes(tick.ch) : SetTick(FetchResult(TickView, ok))
    /\ TickRest

\* edit(name=FINISHED_NAME) returns or raises (lines 112-123).
EditFinishedResult(s, ok) ==
    Finish(Settled(IF ok THEN [s EXCEPT !.chs = Renamed(@, s.tick.ch, FINISHED_NAME)] ELSE s,
                   ok))

EditFinishedDone ==
    /\ tick.pc = "edit_finished"
    /\ \E ok \in Outcomes(tick.ch) : SetTick(EditFinishedResult(TickView, ok))
    /\ TickRest

\* As EditResult, with a failed rename ending the tick.
EditResult_FailureEndsTick(s, ok) ==
    IF ok
    THEN DayStage(Settled([s EXCEPT !.chs = Renamed(@, s.tick.ch, CountdownName(s.tick.ts))], ok))
    ELSE Finish(Settled(s, ok))

\* edit(name=new_name) returns or raises (lines 130-134), then the reminders.
EditResult(s, ok) ==
    DayStage(Settled(IF ok THEN [s EXCEPT !.chs = Renamed(@, s.tick.ch, CountdownName(s.tick.ts))]
                     ELSE [s EXCEPT !.tick.failed = @ \cup {"rename"}],
                     ok))

EditDone ==
    /\ tick.pc = "edit"
    /\ \E ok \in Outcomes(tick.ch) : SetTick(EditResult(TickView, ok))
    /\ TickRest

\* The day send returns or raises (lines 145-151), then the hour stage.
SendDayResult(s, ok) ==
    HourStage(IF ok THEN [s EXCEPT !.tick.msg = None]
              ELSE [s EXCEPT !.tick.msg = None, !.tick.failed = @ \cup {"day"}])

SendDayDone ==
    /\ tick.pc = "send_day"
    /\ \E ok \in Outcomes(tick.ch) : SetTick(SendDayResult(TickView, ok))
    /\ TickRest

\* As SendHourResult, with the marker of a failed send taken back so that a
\* later tick tries again.
SendHourResult_Unmarks(s, ok) ==
    Finish(IF ok THEN s ELSE [s EXCEPT !.sh = @ \ {s.tick.msg[1]}])

\* The hour send returns or raises (lines 163-169); update_loop ends.
SendHourResult(s, ok) == Finish(s)

SendHourDone ==
    /\ tick.pc = "send_hour"
    /\ \E ok \in Outcomes(tick.ch) : SetTick(SendHourResult(TickView, ok))
    /\ TickRest

\* ---------------------------------------------------------------- commands

\* A tick suspended at an await when the event state is replaced or cleared
\* goes on with the locals it read before.
Overtaken == IF tick.pc = "idle" THEN tick ELSE [tick EXCEPT !.stale = TRUE]

\* The history restarts whenever the event state is replaced or cleared.
ResetHistory ==
    /\ day_sends' = NoSends(REMINDER_DAYS)
    /\ hour_sends' = NoSends(REMINDER_HOURS)
    /\ carried_day' = {}
    /\ carried_hour' = {}
    /\ expired_seen' = FALSE
    /\ refire_blocked' = FALSE
    /\ day_reached' = {}
    /\ hour_reached' = {}
    /\ renames' = <<>>
    /\ tick' = Overtaken

KeepEvent ==
    UNCHANGED <<TARGET_TIME, COUNTDOWN_CHANNEL_ID, sent_day_reminders, sent_hour_reminders,
                day_sends, hour_sends, carried_day, carried_hour, expired_seen,
                refire_blocked, day_reached, hour_reached, renames, tick>>

CmdRest == UNCHANGED <<now, sched, ticks_run, given_delta, time_str>>

\* Invocations of createmeteor that have parsed their input and not yet
\* created their channel.
Creating == { h \in Handlers : cmd[h].pc \in {"delete_old", "create"} }

\* create_meteor is called: lines 195-216, up to its first await.
CreateMeteorStart(h, req) ==
    IF ~ParseOk(req.date, req.time)
    THEN cmd' = [cmd EXCEPT ![h] =
                    [IdleCmd EXCEPT !.pc = "reply", !.args = Some(req), !.out = "InvalidInput"]]
    ELSE /\ next_id + Cardinality(Creating) <= MaxChannels
         /\ \E hit \in GetChannel(COUNTDOWN_CHANNEL_ID) :
                cmd' = [cmd EXCEPT ![h] =
                    [pc |-> IF hit THEN "delete_old" ELSE "create",
                     args |-> Some(req),
                     dt |-> Some(parse_datetime_utc(req.date, req.time)),
                     ch |-> IF hit THEN COUNTDOWN_CHANNEL_ID ELSE None,
                     out |-> "None"]]

CreateMeteor(h) ==
    /\ cmd[h].pc = "idle"
    /\ \E req \in Requests : CreateMeteorStart(h, req)
    /\ UNCHANGED <<channels, next_id>>
    /\ KeepEvent
    /\ CmdRest

\* old_channel.delete returns or raises (lines 213-216); on to create_text_channel.
DeleteOldDone(h) ==
    /\ cmd[h].pc = "delete_old"
    /\ \E ok \in Outcomes(cmd[h].ch) :
           channels' = IF ok THEN Without(channels, cmd[h].ch) ELSE channels
    /\ cmd' = [cmd EXCEPT ![h].pc = "create", ![h].ch = None]
    /\ UNCHANGED next_id
    /\ KeepEvent
    /\ CmdRest

\* As CreateReturned, with the channel id stored and the impact time left as it was.
CreateReturned_IdOnly(h) ==
    /\ channels' = [c \in DOMAIN channels \cup {next_id} |->
                        IF c = next_id THEN DefaultName ELSE channels[c]]
    /\ next_id' = next_id + 1
    /\ COUNTDOWN_CHANNEL_ID' = Some(next_id)
    /\ TARGET_TIME' = TARGET_TIME
    /\ sent_day_reminders' = {}
    /\ sent_hour_reminders' = {}
    /\ ResetHistory
    /\ cmd' = [cmd EXCEPT ![h] = [IdleCmd EXCEPT !.pc = "reply", !.out = "Created"]]

\* create_text_channel returned: lines 220-227, up to the await of the reply.
CreateReturned(h) ==
    /\ channels' = [c \in DOMAIN channels \cup {next_id} |->
                        IF c = next_id THEN DefaultName ELSE channels[c]]
    /\ next_id' = next_id + 1
    /\ COUNTDOWN_CHANNEL_ID' = Some(next_id)
    /\ TARGET_TIME' = cmd[h].dt
    /\ sent_day_reminders' = {}
    /\ sent_hour_reminders' = {}
    /\ ResetHistory
    /\ cmd' = [cmd EXCEPT ![h] = [IdleCmd EXCEPT !.pc = "reply", !.out = "Created"]]

\* create_text_channel raised: nothing catches it in create_meteor (line 219).
CreateRaised(h) ==
    /\ cmd' = [cmd EXCEPT ![h] = [IdleCmd EXCEPT !.pc = "raised", !.out = "CreateFailed"]]
    /\ UNCHANGED <<channels, next_id>>
    /\ KeepEvent

CreateDone(h) ==
    /\ cmd[h].pc = "create"
    /\ \E ok \in BOOLEAN : IF ok THEN CreateReturned(h) ELSE CreateRaised(h)
    /\ CmdRest

\* As ResetState, with the fired-sets left as they are.
ResetState_KeepsSets(h) ==
    /\ COUNTDOWN_CHANNEL_ID' = None
    /\ TARGET_TIME' = None
    /\ UNCHANGED <<sent_day_reminders, sent_hour_reminders>>
    /\ ResetHistory
    /\ cmd' = [cmd EXCEPT ![h] = [IdleCmd EXCEPT !.pc = "reply", !.out = "Deleted"]]

\* Lines 260-269 of delete_meteor, up to the await of the reply.
ResetState(h) ==
    /\ COUNTDOWN_CHANNEL_ID' = None
    /\ TARGET_TIME' = None
    /\ sent_day_reminders' = {}
    /\ sent_hour_reminders' = {}
    /\ ResetHistory
    /\ cmd' = [cmd EXCEPT ![h] = [IdleCmd EXCEPT !.pc = "reply", !.out = "Deleted"]]

\* delete_meteor is called: lines 242-258, up to its first await.
DeleteMeteor(h) ==
    /\ cmd[h].pc = "idle"
    /\ IF COUNTDOWN_CHANNEL_ID = None /\ TARGET_TIME = None
       THEN /\ cmd' = [cmd EXCEPT ![h] = [IdleCmd EXCEPT !.pc = "reply", !.out = "NoActiveEvent"]]
            /\ KeepEvent
       ELSE \E hit \in GetChannel(COUNTDOWN_CHANNEL_ID) :
                IF hit
                THEN /\ cmd' = [cmd EXCEPT ![h] =
                            [IdleCmd EXCEPT !.pc = "delete", !.ch = COUNTDOWN_CHANNEL_ID]]
                     /\ KeepEvent
                ELSE ResetState(h)
    /\ UNCHANGED <<channels, next_id>>
    /\ CmdRest

\* channel.delete returns or raises (lines 255-258), then the reset.
DeleteDone(h) ==
    /\ cmd[h].pc = "delete"
    /\ \E ok \in Outcomes(cmd[h].ch) :
           channels' = IF ok THEN Without(channels, cmd[h].ch) ELSE channels
    /\ ResetState(h)
    /\ UNCHANGED next_id
    /\ CmdRest

\* ctx.send returns or raises: the command is over (lines 201-205, 227-232, 245-246, 269).
ReplyDone(h) ==
    /\ cmd[h].pc = "reply"
    /\ cmd' = [cmd EXCEPT ![h] = IdleCmd]
    /\ UNCHANGED <<channels, next_id>>
    /\ KeepEvent
    /\ CmdRest

\* The exception create_text_channel raised has left create_meteor; the
\* library's command dispatcher reports it.
CommandError(h) ==
    /\ cmd[h].pc = "raised"
    /\ cmd' = [cmd EXCEPT ![h] = IdleCmd]
    /\ UNCHANGED <<channels, next_id>>
    /\ KeepEvent
    /\ CmdRest

\* ------------------------------------------------------------ environment

\* The wall clock is read as any of the clock points: it moves on, and it
\* can be set back.
ClockStep ==
    /\ sched = "free"
    /\ \E t \in ClockPoints \ {now} : now' = t
    /\ UNCHANGED <<channels, next_id, cmd, sched, ticks_run, given_delta, time_str>>
    /\ KeepEvent

\* Somebody else deletes a channel of the guild.
ChannelDeleted ==
    /\ \E c \in DOMAIN channels : channels' = Without(channels, Some(c))
    /\ UNCHANGED <<now, next_id, cmd, sched, ticks_run, given_delta, time_str>>
    /\ KeepEvent

\* ----------------------------------------------- the one-minute scheduler

\* tasks.loop(minutes=1): the next tick is due one period after the last one
\* began, once that one has returned.
MinuteElapse ==
    /\ sched = "wait"
    /\ tick.pc = "idle"
    /\ ticks_run < MaxTicks
    /\ now' = now + TickPeriod
    /\ sched' = "due"
    /\ UNCHANGED <<channels, next_id, cmd, ticks_run, given_delta, time_str>>
    /\ KeepEvent

\* Where a reminder begins or ends to be due: d days and d + 1 days for a
\* day threshold d, and h hours and a half for an hour threshold h.
DayBoundaries == { d * SecondsPerDay : d \in REMINDER_DAYS \cup { d + 1 : d \in REMINDER_DAYS } }
HourBoundaries == { h * SecondsPerHour + SecondsPerHour \div 2 : h \in REMINDER_HOURS }

\* What remains when the first tick of a run runs: within MaxOffset seconds
\* of such a boundary, on either side.
MinuteStarts ==
    { b + off : b \in DayBoundaries \cup HourBoundaries, off \in (0 - MaxOffset)..MaxOffset }

\* The event "2026-01-20 16:47" configured in channel 1, no command in
\* progress, and the loop about to run its first tick of this event.
InitMinute ==
    /\ TARGET_TIME = Some(T1)
    /\ COUNTDOWN_CHANNEL_ID = Some(1)
    /\ sent_day_reminders = {}
    /\ sent_hour_reminders = {}
    /\ now \in { T1 - r : r \in MinuteStarts }
    /\ channels = [c \in {1} |-> DefaultName]
    /\ next_id = 2
    /\ tick = IdleTick
    /\ sched = "due"
    /\ cmd = [h \in 1..NumHandlers |-> IdleCmd]
    /\ NoHistory
    /\ ticks_run = 0
    /\ NoCall

NextMinute ==
    \/ TickStart
    \/ FetchDone
    \/ EditDone
    \/ SendDayDone
    \/ SendHourDone
    \/ MinuteElapse
    \/ ChannelDeleted

SpecMinute == InitMinute /\ [][NextMinute]_vars

\* ------------------------------------------- ticks that read the same time

\* The loop's next iteration, with the clock read as it was at the last one.
Repeat ==
    /\ sched = "wait"
    /\ tick.pc = "idle"
    /\ ticks_run < MaxRepeats
    /\ sched' = "due"
    /\ UNCHANGED <<now, channels, next_id, cmd, ticks_run, given_delta, time_str>>
    /\ KeepEvent

\* What remains at those ticks: a day threshold, a day and an hour threshold
\* together, an hour threshold, no threshold, the impact time and a minute
\* past it.
RepeatRemainings ==
    Remainings \cup { 3 * SecondsPerHour, 5 * SecondsPerDay, 0 - TickPeriod }

\* What the channel is called when the first of them runs.
RepeatNames(r) == { DefaultName, FINISHED_NAME, CountdownName(r) }

\* The event "2026-01-20 16:47" configured in channel 1 and the loop about
\* to run a tick.
InitRepeat ==
    /\ TARGET_TIME = Some(T1)
    /\ COUNTDOWN_CHANNEL_ID = Some(1)
    /\ sent_day_reminders = {}
    /\ sent_hour_reminders = {}
    /\ \E r \in RepeatRemainings :
          /\ now = T1 - r
          /\ \E name \in RepeatNames(r) : channels = [c \in {1} |-> name]
    /\ next_id = 2
    /\ tick = IdleTick
    /\ sched = "due"
    /\ cmd = [h \in 1..NumHandlers |-> IdleCmd]
    /\ NoHistory
    /\ ticks_run = 0
    /\ NoCall

NextRepeat ==
    \/ TickStart
    \/ FetchDone
    \/ EditFinishedDone
    \/ EditDone
    \/ SendDayDone
    \/ SendHourDone
    \/ Repeat

SpecRepeat == InitRepeat /\ [][NextRepeat]_vars

\* ------------------------------------------------------ format_time alone

\* The deltas format_time is given, in whole seconds: around zero, 5 minutes
\* before zero, 45 minutes, one hour, one day, one day and one hour, and
\* 10 days 4 hours 32 minutes.
FormatSamples ==
    { 0, 0 - 5 * SecondsPerMinute, 45 * SecondsPerMinute, SecondsPerHour, SecondsPerDay,
      SecondsPerDay + SecondsPerHour,
      10 * SecondsPerDay + 4 * SecondsPerHour + 32 * SecondsPerMinute }
FormatInputs == { b + o : b \in FormatSamples, o \in (0 - FormatSlack)..FormatSlack }

InitFormat ==
    /\ TARGET_TIME = None
    /\ COUNTDOWN_CHANNEL_ID = None
    /\ sent_day_reminders = {}
    /\ sent_hour_reminders = {}
    /\ now = T1
    /\ channels = [c \in {} |-> DefaultName]
    /\ next_id = 1
    /\ tick = IdleTick
    /\ sched = "free"
    /\ cmd = [h \in 1..NumHandlers |-> IdleCmd]
    /\ NoHistory
    /\ ticks_run = 0
    /\ given_delta \in FormatInputs
    /\ time_str = None

\* format_time(delta) is called and returns.
FormatTime ==
    /\ time_str = None
    /\ time_str' = Some(format_time(given_delta))
    /\ UNCHANGED <<given_delta, now, channels, next_id, cmd, sched, ticks_run>>
    /\ KeepEvent

NextFormat == FormatTime

SpecFormat == InitFormat /\ [][NextFormat]_vars

\* ------------------------------------------------------ the commands alone

\* No tick runs and nobody else touches the guild: a channel that is gone
\* was deleted by a command.
NextCommands ==
    \/ \E h \in Handlers : CreateMeteor(h)
    \/ \E h \in Handlers : DeleteOldDone(h)
    \/ \E h \in Handlers : CreateDone(h)
    \/ \E h \in Handlers : DeleteMeteor(h)
    \/ \E h \in Handlers : DeleteDone(h)
    \/ \E h \in Handlers : ReplyDone(h)
    \/ \E h \in Handlers : CommandError(h)

SpecCommands == Init /\ [][NextCommands]_vars

\* ----------------------------- commands racing, every external call succeeding

\* guild.get_channel returned the channel if the guild has it.
Found(h) == Exists(COUNTDOWN_CHANNEL_ID) => cmd'[h].ch = COUNTDOWN_CHANNEL_ID

\* The delete of a channel that is there removed it.
Removed(h) == Exists(cmd[h].ch) => Val(cmd[h].ch) \notin DOMAIN channels'

CreateMeteorFound(h) == CreateMeteor(h) /\ (cmd'[h].dt # None => Found(h))
DeleteOldSucceeded(h) == DeleteOldDone(h) /\ Removed(h)
CreateSucceeded(h) == CreateDone(h) /\ cmd'[h].out = "Created"
DeleteMeteorFound(h) == DeleteMeteor(h) /\ (cmd'[h].out # "NoActiveEvent" => Found(h))
DeleteSucceeded(h) == DeleteDone(h) /\ Removed(h)

InitRace ==
    /\ TARGET_TIME = None
    /\ COUNTDOWN_CHANNEL_ID = None
    /\ sent_day_reminders = {}
    /\ sent_hour_reminders = {}
    /\ now = T1 - 7 * SecondsPerDay
    /\ channels = [c \in {} |-> DefaultName]
    /\ next_id = 1
    /\ tick = IdleTick
    /\ sched = "free"
    /\ cmd = [h \in 1..NumRacing |-> IdleCmd]
    /\ NoHistory
    /\ ticks_run = 0
    /\ NoCall

NextRace ==
    \/ \E h \in Handlers : CreateMeteorFound(h)
    \/ \E h \in Handlers : DeleteOldSucceeded(h)
    \/ \E h \in Handlers : CreateSucceeded(h)
    \/ \E h \in Handlers : DeleteMeteorFound(h)
    \/ \E h \in Handlers : DeleteSucceeded(h)
    \/ \E h \in Handlers : ReplyDone(h)

SpecRace == InitRace /\ [][NextRace]_vars

Next ==
    \/ TickStart
    \/ FetchDone
    \/ EditFinishedDone
    \/ EditDone
    \/ SendDayDone
    \/ SendHourDone
    \/ \E h \in Handlers : CreateMeteor(h)
    \/ \E h \in Handlers : DeleteOldDone(h)
    \/ \E h \in Handlers : CreateDone(h)
    \/ \E h \in Handlers : DeleteMeteor(h)
    \/ \E h \in Handlers : DeleteDone(h)
    \/ \E h \in Handlers : ReplyDone(h)
    \/ \E h \in Handlers : CommandError(h)
    \/ ClockStep
    \/ ChannelDeleted

Spec == Init /\ [][Next]_vars

\* ------------------------------------------------------------------ claims

Configured == TARGET_TIME # None /\ COUNTDOWN_CHANNEL_ID # None

\* No command is in progress.
Quiescent == \A h \in Handlers : cmd[h].pc = "idle"

\* C1: in every state another coroutine can observe, the channel id is
\* present exactly when the impact time is present.
C1_BothOrNeither == (COUNTDOWN_CHANNEL_ID = None) <=> (TARGET_TIME = None)

\* A reconfiguration has deleted the old channel and failed to create the new
\* one: the event is still configured.
C1_Witness ==
    /\ Configured
    /\ ~Exists(COUNTDOWN_CHANNEL_ID)
    /\ \E h \in Handlers : cmd[h].pc = "raised"

\* C2: a tick that a Configure or Deconfigure overtakes at an await goes on
\* with the new event state as a whole: no marker it derives from the old
\* impact time is added to the fired-sets the command has reset, and both
\* fired-sets are empty whenever no event is configured.
C2_OldOrNewState ==
    /\ carried_day = {}
    /\ carried_hour = {}
    /\ (TARGET_TIME = None => sent_day_reminders = {} /\ sent_hour_reminders = {})

\* C3: once a Configure has installed event B, a tick of B that reaches a day
\* or hour threshold which no tick of B has fired yet fires it, whatever was
\* fired under the event before.
C3_FiresAgain == ~refire_blocked

\* C4: since the last Configure or Deconfigure, a send has been attempted at
\* most once for each day threshold and for each hour threshold; a threshold
\* whose send was attempted is in its fired-set, also while the send is in
\* flight and after it has failed.
C4_AtMostOnce ==
    /\ \A d \in REMINDER_DAYS :
          /\ day_sends[d] <= 1
          /\ (day_sends[d] = 1 => d \in sent_day_reminders)
    /\ \A n \in REMINDER_HOURS :
          /\ hour_sends[n] <= 1
          /\ (hour_sends[n] = 1 => n \in sent_hour_reminders)

\* The day send of this tick has failed, its threshold is still marked, and
\* the tick is not the first of this event to reach that threshold: the clock
\* had been set back to it.
C4_Witness ==
    /\ tick.pc = "send_hour"
    /\ ~tick.stale
    /\ "day" \in tick.failed
    /\ DaysRemaining(tick.ts) \in sent_day_reminders
    /\ day_sends[DaysRemaining(tick.ts)] = 1
    /\ expired_seen

\* Under the one-minute scheduler: what remained at the first tick of the
\* run, and what remains now.
Remaining == Val(TARGET_TIME) - now
Elapsed == ticks_run - 1 + (IF sched = "due" THEN 1 ELSE 0)
FirstRemaining == Remaining + TickPeriod * Elapsed

\* The run began at or above the d-day boundary and its last tick, begun
\* below it, has returned.
PassedThrough(d) ==
    /\ FirstRemaining >= d * SecondsPerDay
    /\ Remaining < d * SecondsPerDay
    /\ sched = "wait"
    /\ tick.pc = "idle"

\* The first tick of the run began more than a tick period below the d-day
\* boundary.
StartedBelow(d) == ticks_run >= 1 /\ FirstRemaining < d * SecondsPerDay - TickPeriod

\* C5 as stated: every run of one-minute ticks through the d-day boundary
\* sends the d-day reminder exactly once, and a run that starts more than a
\* tick period below the boundary never sends it.
C5_ExactlyOnce ==
    \A d \in REMINDER_DAYS :
        /\ PassedThrough(d) => day_sends[d] = 1
        /\ StartedBelow(d) => day_sends[d] = 0

\* C5 as amended: a run of one-minute ticks through the d-day boundary sends
\* the d-day reminder at most once, and exactly once if one of its ticks with
\* floor(remaining / 86400) = d has resolved the channel; a run that starts
\* more than a tick period below the boundary never sends it.
C5_OnceIfResolved ==
    \A d \in REMINDER_DAYS :
        /\ PassedThrough(d) => day_sends[d] <= 1
        /\ PassedThrough(d) /\ d \in day_reached => day_sends[d] = 1
        /\ StartedBelow(d) => day_sends[d] = 0

\* A run through the 28-day boundary has ended: a tick at exactly 28 days set
\* the channel name, and the 28-day reminder was sent once.
C5_Witness ==
    /\ PassedThrough(28)
    /\ 28 \in day_reached
    /\ day_sends[28] = 1
    /\ ticks_run = 3
    /\ NameOf(channels, COUNTDOWN_CHANNEL_ID)
           = CountdownName(28 * SecondsPerDay)

\* C6: a step that adds a value to the hour fired-set, or that starts an hour
\* send, is a step of a tick whose remaining time is under 48 hours.
C6_HourOnlyUnder48h ==
    [][ /\ \A n \in sent_hour_reminders' \ sent_hour_reminders :
              /\ tick'.pc = "send_hour"
              /\ tick'.msg[1] = n
              /\ tick'.ts < 48 * SecondsPerHour
        /\ (tick'.pc = "send_hour" /\ tick.pc # "send_hour"
              => tick'.ts < 48 * SecondsPerHour) ]_vars

\* A tick of this event with 7 days or more remaining has run to its end,
\* its hour stage included, and the hour fired-set is empty.
C6_Witness ==
    /\ 7 \in day_reached
    /\ tick.pc = "idle"
    /\ Configured
    /\ Val(TARGET_TIME) - now >= 7 * SecondsPerDay
    /\ sent_hour_reminders = {}

\* The requests whose date or time is no UTC timestamp.
C7_Malformed ==
    { [date |-> <<Num(2025), Num(13), Num(40)>>, time |-> Time1],
      [date |-> <<Num(2026), Num(2), Num(29)>>, time |-> Time1],
      [date |-> <<Num(2026), Txt, Num(20)>>, time |-> Time1],
      [date |-> <<Num(2026), Num(1)>>, time |-> Time1],
      [date |-> Date1, time |-> <<Num(24), Num(0)>>],
      [date |-> Date1, time |-> <<Num(16)>>] }

C7_Frame ==
    UNCHANGED <<TARGET_TIME, COUNTDOWN_CHANNEL_ID, sent_day_reminders, sent_hour_reminders,
                channels, next_id>>

\* C7: a createmeteor given a malformed date or time goes straight to the
\* InvalidInput reply and returns from it, and neither step changes the
\* impact time, the channel id, a fired-set or the guild's channels.
C7_InvalidInputChangesNothing ==
    [][ \A h \in Handlers :
          /\ (/\ cmd[h].pc = "idle"
              /\ cmd'[h].args # None
              /\ Val(cmd'[h].args) \in C7_Malformed)
                => /\ cmd'[h].pc = "reply"
                   /\ cmd'[h].out = "InvalidInput"
                   /\ C7_Frame
          /\ (cmd[h].out = "InvalidInput" /\ cmd'[h] # cmd[h])
                => /\ cmd'[h] = IdleCmd
                   /\ C7_Frame ]_vars

\* "2025-13-40" has been refused while an event with a fired day marker is
\* configured and its channel exists.
C7_Witness ==
    /\ \E h \in Handlers :
          /\ cmd[h].out = "InvalidInput"
          /\ Val(cmd[h].args).date = <<Num(2025), Num(13), Num(40)>>
    /\ Configured
    /\ Exists(COUNTDOWN_CHANNEL_ID)
    /\ sent_day_reminders # {}

\* C8: no failure of an external action leaves the handler that issued it.
C8_NothingPropagates == \A h \in Handlers : cmd[h].pc # "raised"

\* What C9 expects of the hour stage of a tick with remaining time ts.
C9_HourFollows(ts) ==
    LET n == HoursRemaining(ts)
    IN  (ts < 48 * SecondsPerHour /\ n \in REMINDER_HOURS /\ n \notin sent_hour_reminders)
            => /\ tick'.pc = "send_hour"
               /\ tick'.msg[1] = n
               /\ n \in sent_hour_reminders'

\* C9: when the rename of a tick ends, in success or in failure, a day
\* reminder that is due is sent next, and otherwise an hour reminder that is
\* due; when the day send ends, in success or in failure, an hour reminder
\* that is due is sent next.
C9_FailuresIsolated ==
    [][ /\ (tick.pc = "edit" /\ tick'.pc # "edit")
              => LET d == DaysRemaining(tick.ts)
                 IN  IF d \in REMINDER_DAYS /\ d \notin sent_day_reminders
                     THEN /\ tick'.pc = "send_day"
                          /\ tick'.msg[1] = d
                          /\ d \in sent_day_reminders'
                     ELSE C9_HourFollows(tick.ts)
        /\ (tick.pc = "send_day" /\ tick'.pc # "send_day")
              => C9_HourFollows(tick.ts) ]_vars

\* The rename and the day send of one tick have both failed and its hour
\* reminder is being sent.
C9_Witness ==
    /\ tick.pc = "send_hour"
    /\ tick.failed = {"rename", "day"}

\* C10: once a tick of this event has observed remaining <= 0, no reminder
\* is sent until the next Configure or Deconfigure.
C10_ExpiredIsFinal == expired_seen => tick.pc \notin {"send_day", "send_hour"}

C12_Begins(h) == cmd[h].pc = "idle" /\ cmd'[h].pc # "idle" /\ cmd'[h].args = None

C12_Cleared ==
    /\ TARGET_TIME' = None
    /\ COUNTDOWN_CHANNEL_ID' = None
    /\ sent_day_reminders' = {}
    /\ sent_hour_reminders' = {}

C12_Untouched ==
    UNCHANGED <<TARGET_TIME, COUNTDOWN_CHANNEL_ID, sent_day_reminders, sent_hour_reminders,
                channels, next_id>>

\* With nothing configured, deletemeteor goes to the NoActiveEvent reply and
\* returns from it, and neither step changes the event state or a channel.
C12_NoActiveEvent(h) ==
    /\ (C12_Begins(h) /\ ~Configured)
          => /\ cmd'[h].pc = "reply"
             /\ cmd'[h].out = "NoActiveEvent"
             /\ C12_Untouched
    /\ (cmd[h].out = "NoActiveEvent" /\ cmd'[h] # cmd[h])
          => /\ cmd'[h] = IdleCmd
             /\ C12_Untouched

\* When the delete that was attempted returns or raises, the event state is
\* cleared, and the channel is gone or still there.
C12_AfterAttempt(h) ==
    (cmd[h].pc = "delete" /\ cmd'[h] # cmd[h])
        => /\ cmd'[h].out = "Deleted"
           /\ C12_Cleared
           /\ channels' \in {channels, Without(channels, cmd[h].ch)}

\* C12 as stated: deletemeteor with nothing configured reports NoActiveEvent
\* and changes nothing; with an event configured whose channel exists it
\* attempts the delete, and whether that succeeds or fails it leaves the
\* impact time and the channel id absent and both fired-sets empty.
C12_AlwaysAttempts ==
    [][ \A h \in Handlers :
          /\ C12_NoActiveEvent(h)
          /\ (C12_Begins(h) /\ Configured /\ Exists(COUNTDOWN_CHANNEL_ID))
                => /\ cmd'[h].pc = "delete"
                   /\ cmd'[h].ch = COUNTDOWN_CHANNEL_ID
                   /\ C12_Untouched
          /\ C12_AfterAttempt(h) ]_vars

\* C12 as amended: as stated, except that the delete is attempted only when
\* the guild's lookup returns the channel; when it returns nothing the state
\* is cleared at once and no channel is touched.
C12_AttemptsIfFound ==
    [][ \A h \in Handlers :
          /\ C12_NoActiveEvent(h)
          /\ (C12_Begins(h) /\ Configured)
                => \/ /\ cmd'[h].pc = "delete"
                      /\ cmd'[h].ch = COUNTDOWN_CHANNEL_ID
                      /\ Exists(COUNTDOWN_CHANNEL_ID)
                      /\ C12_Untouched
                   \/ /\ cmd'[h].pc = "reply"
                      /\ cmd'[h].out = "Deleted"
                      /\ C12_Cleared
                      /\ UNCHANGED <<channels, next_id>>
          /\ C12_AfterAttempt(h) ]_vars

\* A deletemeteor has cleared the event while a tick of it was sending a day
\* reminder, whose marker is gone, and the event's channel is still in the
\* guild.
C12_Witness ==
    /\ \E h \in Handlers : cmd[h].out = "Deleted"
    /\ TARGET_TIME = None
    /\ COUNTDOWN_CHANNEL_ID = None
    /\ sent_day_reminders = {}
    /\ tick.pc = "send_day"
    /\ tick.stale
    /\ DOMAIN channels # {}

\* C13: the step in which the channel lookup of a tick ends leaves the
\* impact time and the channel id as they are; a lookup of a channel that is
\* not there ends the tick; and when the lookup ends the tick, no rename and
\* no send is issued, no marker is added and no send is counted, so that a
\* threshold that was due and unmarked is still unmarked.
C13_LookupFailureSkipsTick ==
    [][ (tick.pc = "fetch" /\ tick'.pc # "fetch")
          => /\ UNCHANGED <<TARGET_TIME, COUNTDOWN_CHANNEL_ID>>
             /\ (~Exists(tick.ch) => tick'.pc = "idle")
             /\ (tick'.pc = "idle"
                    => /\ tick' = IdleTick
                       /\ UNCHANGED <<sent_day_reminders, sent_hour_reminders, channels,
                                      day_sends, hour_sends, renames>>) ]_vars

\* The second tick of a run sends the 7-day reminder, which was already due
\* at the first: that one did not resolve the channel and issued nothing.
C13_Witness ==
    /\ ticks_run = 2
    /\ tick.pc = "send_day"
    /\ tick.msg[1] = 7
    /\ DaysRemaining(tick.ts + TickPeriod) = 7
    /\ renames = <<"ok">>
    /\ day_sends[7] = 1
    /\ Configured

\* C14: a step of update_loop (the tick moves from one await, or from its
\* start, to another, or returns) leaves the impact time and the channel id
\* as they are and removes nothing from a fired-set; and with no event
\* configured, a step that is not a command's starts no rename and no send
\* and changes neither the tick, the event state, a fired-set nor the name of
\* a channel.
C14_TickFrame ==
    [][ /\ (tick'.pc # tick.pc)
              => /\ UNCHANGED <<TARGET_TIME, COUNTDOWN_CHANNEL_ID, cmd, next_id>>
                 /\ sent_day_reminders \subseteq sent_day_reminders'
                 /\ sent_hour_reminders \subseteq sent_hour_reminders'
        /\ (~Configured /\ tick.pc = "idle" /\ cmd' = cmd)
              => /\ tick' = tick
                 /\ UNCHANGED <<TARGET_TIME, COUNTDOWN_CHANNEL_ID, sent_day_reminders,
                                sent_hour_reminders, next_id, day_sends, hour_sends>>
                 /\ \A c \in DOMAIN channels' :
                        c \in DOMAIN channels /\ channels'[c] = channels[c] ]_vars

\* A tick of the configured event, one day before the impact, has added the
\* day marker 1 and the hour marker 24 and is sending the hour reminder.
C14_Witness ==
    /\ Configured
    /\ tick.pc = "send_hour"
    /\ ~tick.stale
    /\ sent_day_reminders = {1}
    /\ sent_hour_reminders = {24}

\* C15: what format_time returns for a delta of whole seconds is, with total
\* the delta or 0 for a negative one, days = total div 86400, hours =
\* (total mod 86400) div 3600 and minutes = (total mod 3600) div 60: the days
\* if days > 0, then the hours if hours > 0 or days > 0, then the minutes,
\* always and last.  So 5 minutes before zero give "0m", 45 minutes "45m"
\* and 10 days 4 hours 32 minutes "10d 4h 32m".
C15_Components ==
    time_str # None =>
        LET total == IF given_delta < 0 THEN 0 ELSE given_delta
            days == total \div 86400
            hours == (total % 86400) \div 3600
            minutes == (total % 3600) \div 60
            out == Val(time_str)
        IN  /\ Len(out) = (IF days > 0 THEN 3 ELSE IF hours > 0 THEN 2 ELSE 1)
            /\ out[Len(out)] = <<minutes, "m">>
            /\ (days > 0 => out[1] = <<days, "d">> /\ out[2] = <<hours, "h">>)
            /\ (days = 0 /\ hours > 0 => out[1] = <<hours, "h">>)
            /\ \A i \in 1..Len(out) : out[i][1] >= 0
            /\ (given_delta = 0 - 300 => out = << <<0, "m">> >>)
            /\ (given_delta = 2700 => out = << <<45, "m">> >>)
            /\ (given_delta = 880320 => out = << <<10, "d">>, <<4, "h">>, <<32, "m">> >>)

\* format_time has returned "1d 0h 0m" for one day and 59 seconds.
C15_Witness ==
    /\ given_delta = SecondsPerDay + 59
    /\ time_str = Some(<< <<1, "d">>, <<0, "h">>, <<0, "m">> >>)

\* C16: once a tick of the configured event has observed remaining <= 0 and
\* the channel carries the fixed label, the channel keeps the label for as
\* long as it exists and no Configure or Deconfigure replaces the event.
C16_LabelKept ==
    [][ (/\ expired_seen
         /\ expired_seen'
         /\ Exists(COUNTDOWN_CHANNEL_ID)
         /\ NameOf(channels, COUNTDOWN_CHANNEL_ID) = FINISHED_NAME
         /\ Val(COUNTDOWN_CHANNEL_ID') \in DOMAIN channels')
          => NameOf(channels', COUNTDOWN_CHANNEL_ID') = FINISHED_NAME ]_vars

\* The run began above h hours and a half and under 48 hours, and its last
\* tick, whose rounded hour count is h, has returned.
C17_InWindow(h) ==
    /\ ticks_run >= 1
    /\ FirstRemaining > h * SecondsPerHour + SecondsPerHour \div 2
    /\ FirstRemaining < 48 * SecondsPerHour
    /\ HoursRemaining(Remaining) = h
    /\ sched = "wait"
    /\ tick.pc = "idle"

\* An hour reminder is being sent by a tick whose remaining time is within
\* 30 minutes of the hours it carries.
C17_OnlyNearTheHour ==
    tick.pc = "send_hour" =>
        LET h == tick.msg[1]
        IN  /\ h \in REMINDER_HOURS
            /\ 2 * (tick.ts - h * SecondsPerHour) <= SecondsPerHour
            /\ 2 * (h * SecondsPerHour - tick.ts) <= SecondsPerHour

\* C17 as stated: an hour reminder carrying h is sent only at a tick within
\* 30 minutes of h hours; and when a run of one-minute ticks that began above
\* h hours and a half and under 48 hours has run its first tick with rounded
\* hour count h, or a later one, the h-hour reminder has been sent exactly
\* once.
C17_AtFirstRoundedTick ==
    /\ C17_OnlyNearTheHour
    /\ \A h \in REMINDER_HOURS : C17_InWindow(h) => hour_sends[h] = 1

\* C17 as amended: an hour reminder carrying h is sent only at a tick within
\* 30 minutes of h hours; in a run of one-minute ticks the h-hour reminder is
\* sent at most once, it has been sent as soon as a tick with rounded hour
\* count h has resolved the channel, and not before.
C17_AtFirstResolvedTick ==
    /\ C17_OnlyNearTheHour
    /\ \A h \in REMINDER_HOURS :
          /\ hour_sends[h] <= 1
          /\ (h \in hour_reached <=> hour_sends[h] = 1)
          /\ (C17_InWindow(h) /\ h \in hour_reached => h \in sent_hour_reminders)

\* A run that began with 1 hour 31 minutes remaining has run three ticks:
\* the counts of the first two rounded to 2, that of the third to 1, and the
\* 1-hour reminder was sent once.
C17_Witness ==
    /\ C17_InWindow(1)
    /\ FirstRemaining = SecondsPerHour + 31 * SecondsPerMinute
    /\ ticks_run = 3
    /\ hour_reached = {1}
    /\ hour_sends[1] = 1

\* The run began at d + 1 days or above and its last tick, with d days and a
\* part of a day remaining, has returned.
C18_InInterval(d) ==
    /\ ticks_run >= 1
    /\ FirstRemaining >= (d + 1) * SecondsPerDay
    /\ d * SecondsPerDay <= Remaining
    /\ Remaining < (d + 1) * SecondsPerDay
    /\ sched = "wait"
    /\ tick.pc = "idle"

\* A day reminder is being sent by a tick that has the days it carries, and
\* less than one day more, remaining.
C18_OnlyInItsDay ==
    tick.pc = "send_day" =>
        LET d == tick.msg[1]
        IN  /\ d \in REMINDER_DAYS
            /\ d * SecondsPerDay <= tick.ts
            /\ tick.ts < (d + 1) * SecondsPerDay

\* In one tick a day send begins at most once, before any hour send, and an
\* hour send at most once, after which the tick returns.
C18_OnePerKind ==
    /\ (tick'.pc = "send_day" /\ tick.pc # "send_day") => tick.pc \in {"idle", "fetch", "edit"}
    /\ tick.pc = "send_day" => tick'.pc \in {"send_day", "send_hour", "idle"}
    /\ tick.pc = "send_hour" => tick'.pc \in {"send_hour", "idle"}

\* C18 as stated: a day reminder carrying d is sent only at a tick with
\* d * 86400 <= remaining < (d + 1) * 86400; when a run of one-minute ticks
\* that began at d + 1 days or above has run its first tick below d + 1
\* days, or a later one of that day, the d-day reminder has been sent; and a
\* tick sends at most one day reminder and one hour reminder.
C18_AtFirstTickOfTheDay ==
    [][ /\ C18_OnlyInItsDay'
        /\ \A d \in REMINDER_DAYS : C18_InInterval(d)' => day_sends'[d] = 1
        /\ C18_OnePerKind ]_vars

\* C18 as amended: as stated, except that the d-day reminder has been sent
\* as soon as a tick of that day has resolved the channel, and not before,
\* and at most once.
C18_AtFirstResolvedTickOfTheDay ==
    [][ /\ C18_OnlyInItsDay'
        /\ \A d \in REMINDER_DAYS :
              /\ day_sends'[d] <= 1
              /\ (d \in day_reached' <=> day_sends'[d] = 1)
        /\ C18_OnePerKind ]_vars

\* A run that began one minute above 29 days has run three ticks: the third
\* was the first below 29 days, and the 28-day reminder was sent.
C18_Witness ==
    /\ C18_InInterval(28)
    /\ FirstRemaining = 29 * SecondsPerDay + TickPeriod
    /\ ticks_run = 3
    /\ day_sends[28] = 1
    /\ 28 \in sent_day_reminders

\* C19: when no command is in progress, the channels the commands created
\* that still exist are the channel of the configured event and no other,
\* and none when no event is configured.
C19_OnlyTheEventsChannel ==
    Quiescent =>
        DOMAIN channels = (IF Configured THEN {Val(COUNTDOWN_CHANNEL_ID)} ELSE {})

\* C20: when no command is in progress and an event is configured, its
\* channel id is not that of a channel a command has deleted.
C20_RefNotDeleted == (Quiescent /\ Configured) => Exists(COUNTDOWN_CHANNEL_ID)

====
